---- MODULE Spec2Model ----
(***************************************************************************)
(* Model of the tfConverters class of src/src/DfConverters.ts:             *)
(*   toTensor / fromTensor       DataFrame <-> rank-2 tensor               *)
(*   toImageBlob / fromImageBlob rank-3 tensor <-> encoded image           *)
(* Each converter is checked under its own specification (SpecTab,         *)
(* SpecToImage, SpecFromImage); the converters share no state.             *)
(***************************************************************************)
EXTENDS Integers, Sequences, FiniteSets, TLC

VARIABLES
    pc,          \* position of the tabular caller
    dataFrame,   \* the DataFrame handed to toTensor
    tensor,      \* the tensor returned by toTensor / handed to fromTensor
    columns,     \* the column argument handed to fromTensor
    ftOut,       \* outcome of the fromTensor call
    tiPc,        \* position of the toImageBlob call
    tiTensor,    \* the tensor handed to toImageBlob
    tiFormat,    \* the format handed to toImageBlob
    tiLog,       \* the steps the toImageBlob call has taken, in order
    tiPixels,    \* clampedArray: the RGBA bytes built by toImageBlob
    tiCanvas,    \* the off-screen canvas of the toImageBlob call
    tiCallback,  \* what the encoder's callback was given: "none", "null", "blob"
    tiPromise,   \* the promise returned by toImageBlob
    fiPc,        \* position of the fromImageBlob call
    fiLog,       \* the steps the fromImageBlob call has taken, in order
    fiUrl,       \* the object URL of the call: times created, times revoked
    fiSrcSet,    \* times img.src was assigned
    fiImage,     \* what the platform decoded: width, height, RGBA bytes
    fiEvent,     \* the platform's notification: "none", "load" or the error
    fiPromise    \* the promise returned by fromImageBlob

tabVars == <<pc, dataFrame, tensor, columns, ftOut>>
tiVars == <<tiPc, tiTensor, tiFormat, tiLog, tiPixels, tiCanvas, tiCallback, tiPromise>>
fiVars == <<fiPc, fiLog, fiUrl, fiSrcSet, fiImage, fiEvent, fiPromise>>
vars == <<tabVars, tiVars, fiVars>>

(***************************************************************************)
(* Bounds of the model.                                                    *)
(***************************************************************************)
MaxRows == 2
MaxCols == 2
MaxDim == 2
MaxColumnList == 3
MaxHeight == 2
MaxWidth == 2

\* column names a DataFrame or a column list may use
ColumnNames == {"a", "b", "c"}
\* cell values of a DataFrame: JS numbers, some beyond float32's 24-bit mantissa
CellValues == {3, 16777217, 16777219}
\* elements of a tensor handed directly to fromTensor (already float32)
TensorValues == {1, 2}

Undefined == "undefined"
NoValue == [data |-> <<>>, columns |-> [given |-> FALSE, names |-> <<>>]]
NoTensor == [shape |-> <<>>, values |-> <<>>]

(***************************************************************************)
(* Sequence helpers.                                                       *)
(***************************************************************************)
RECURSIVE Flat(_)
\* Array.prototype.flat(): concatenation of the inner arrays, in order
Flat(rows) == IF rows = <<>> THEN <<>> ELSE Head(rows) \o Flat(Tail(rows))

RECURSIVE Product(_)
Product(shape) == IF shape = <<>> THEN 1 ELSE Head(shape) * Product(Tail(shape))

SeqsUpTo(S, n) == UNION {[1..k -> S] : k \in 0..n}

Distinct(s) == \A i, j \in 1..Len(s) : i # j => s[i] # s[j]

(***************************************************************************)
(* The tensor library as the converters use it.                            *)
(***************************************************************************)
RECURSIVE Ulp(_)
\* spacing of float32 numbers around a non-negative integer x
Ulp(x) == IF x < 16777216 THEN 1 ELSE 2 * Ulp(x \div 2)

\* store of a JS number (an integer here) into a float32 element:
\* round to nearest, ties to even
Fround(x) ==
    LET a == IF x < 0 THEN -x ELSE x
        u == Ulp(a)
        q == a \div u
        r == a % u
        m == IF 2 * r < u THEN q
             ELSE IF 2 * r > u THEN q + 1
             ELSE IF q % 2 = 0 THEN q ELSE q + 1
    IN IF x < 0 THEN -(m * u) ELSE m * u

\* tf.tensor(values, shape): float32 elements, row-major
Tensor(values, shape) ==
    [shape |-> shape, values |-> [k \in 1..Len(values) |-> Fround(values[k])]]

\* tensor.arraySync(): nested along the first axis
arraySync(t) ==
    IF Len(t.shape) = 0 \/ t.shape[1] = 0 THEN <<>>
    ELSE LET w == Len(t.values) \div t.shape[1]
         IN [i \in 1..t.shape[1] |-> SubSeq(t.values, (i - 1) * w + 1, i * w)]

(***************************************************************************)
(* The DataFrame library as the converters use it.                         *)
(***************************************************************************)
DataFrame(data, cols) == [data |-> data, columns |-> cols]
toJSON(df) == df.data
columnNames(df) == df.columns.names
count(df) == Len(df.data)

Given(names) == [given |-> TRUE, names |-> names]
Omitted == [given |-> FALSE, names |-> <<>>]

(***************************************************************************)
(* toTensor                                                                *)
(***************************************************************************)
\* row => dataFrame.columnNames().map(col => row[col])
RowValuesReversed(df, row) ==
    LET cs == columnNames(df)
    IN [j \in 1..Len(cs) |-> row[cs[Len(cs) + 1 - j]]]
RowValues(df, row) ==
    LET cs == columnNames(df) IN [j \in 1..Len(cs) |-> row[cs[j]]]

toTensorShapeSwapped(df) == <<Len(columnNames(df)), count(df)>>
toTensorShape(df) == <<count(df), Len(columnNames(df))>>

toTensor(df) ==
    LET json == toJSON(df)
        values == [i \in 1..Len(json) |-> RowValues(df, json[i])]
        shape == toTensorShape(df)
        flattenedValues == Flat(values)
    IN Tensor(flattenedValues, shape)

(***************************************************************************)
(* fromTensor                                                              *)
(***************************************************************************)
RankError == "Only 2D tensors can be converted to a DataFrame"

fromTensorRejectsLax(shape) == Len(shape) < 2
fromTensorRejects(shape) == Len(shape) # 2

\* rowValues[index], undefined past the end of the array
AtIndex(rowValues, index) ==
    IF index < Len(rowValues) THEN rowValues[index + 1] ELSE Undefined

RECURSIVE AssignColumnsWithinRow(_, _, _, _)
AssignColumnsWithinRow(row, cols, rowValues, index) ==
    IF index >= Len(cols) \/ index >= Len(rowValues) THEN row
    ELSE AssignColumnsWithinRow((cols[index + 1] :> AtIndex(rowValues, index)) @@ row,
                                cols, rowValues, index + 1)

RECURSIVE AssignColumns(_, _, _, _)
\* (columns || []).forEach((col, index) => { row[col] = rowValues[index]; })
AssignColumns(row, cols, rowValues, index) ==
    IF index >= Len(cols) THEN row
    ELSE AssignColumns((cols[index + 1] :> AtIndex(rowValues, index)) @@ row,
                       cols, rowValues, index + 1)

EmptyRow == [c \in {} |-> Undefined]

ColumnsOrEmpty(cols) == IF cols.given THEN cols.names ELSE <<>>

fromTensor(t, cols) ==
    LET shape == t.shape IN
    IF fromTensorRejects(shape)
    THEN [threw |-> TRUE, error |-> RankError, reads |-> 0, built |-> 0,
          promise |-> "none", value |-> NoValue]
    ELSE LET values == arraySync(t)
             data == [i \in 1..Len(values) |->
                        AssignColumns(EmptyRow, ColumnsOrEmpty(cols), values[i], 0)]
         IN [threw |-> FALSE, error |-> "", reads |-> 1, built |-> 1,
             promise |-> "resolved", value |-> DataFrame(data, cols)]

NoOutcome ==
    [threw |-> FALSE, error |-> "", reads |-> 0, built |-> 0,
     promise |-> "none", value |-> NoValue]

(***************************************************************************)
(* Inputs of the tabular converters.                                       *)
(***************************************************************************)
ColumnLists == {s \in SeqsUpTo(ColumnNames, MaxCols) : Distinct(s)}

DataFramesOver(cs) ==
    LET names == {cs[j] : j \in 1..Len(cs)}
    IN {DataFrame(d, Given(cs)) : d \in SeqsUpTo([names -> CellValues], MaxRows)}

\* ranks 0, 1 and 2 with every axis up to MaxDim, and some rank-3 shapes
Shapes ==
    SeqsUpTo(0..MaxDim, 2) \cup {<<1, 1, 1>>, <<1, 2, 3>>, <<2, 1, 3>>, <<0, 2, 3>>}

TensorsOf(shape) ==
    {[shape |-> shape, values |-> v] : v \in [1..Product(shape) -> TensorValues]}

ColumnArgs ==
    {Omitted} \cup {Given(s) : s \in SeqsUpTo({"a", "b"}, MaxColumnList)}

(***************************************************************************)
(* The tabular caller: toTensor, then optionally fromTensor on its result  *)
(* with the DataFrame's own column names; or fromTensor on any tensor.     *)
(***************************************************************************)
InitTab ==
    /\ pc = "idle"
    /\ dataFrame = NoValue
    /\ tensor = NoTensor
    /\ columns = Omitted
    /\ ftOut = NoOutcome

CallToTensor ==
    /\ pc = "idle"
    /\ \E cs \in ColumnLists : \E df \in DataFramesOver(cs) :
          /\ dataFrame' = df
          /\ tensor' = toTensor(df)
    /\ pc' = "toTensorDone"
    /\ UNCHANGED <<columns, ftOut, tiVars, fiVars>>

CallFromTensorOnResult ==
    /\ pc = "toTensorDone"
    /\ columns' = Given(columnNames(dataFrame))
    /\ ftOut' = fromTensor(tensor, Given(columnNames(dataFrame)))
    /\ pc' = "roundTripDone"
    /\ UNCHANGED <<dataFrame, tensor, tiVars, fiVars>>

CallFromTensor ==
    /\ pc = "idle"
    /\ \E shape \in Shapes : \E t \in TensorsOf(shape) : \E cols \in ColumnArgs :
          /\ tensor' = t
          /\ columns' = cols
          /\ ftOut' = fromTensor(t, cols)
    /\ pc' = "fromTensorDone"
    /\ UNCHANGED <<dataFrame, tiVars, fiVars>>

NextTab == CallToTensor \/ CallFromTensorOnResult \/ CallFromTensor


(***************************************************************************)
(* Numbers of the image converters: exact rationals <<n, d>> with d > 0,   *)
(* kept in lowest terms.                                                   *)
(***************************************************************************)
RECURSIVE Gcd(_, _)
Gcd(x, y) == IF y = 0 THEN x ELSE Gcd(y, x % y)

Rat(n, d) == LET g == Gcd(n, d) IN IF n = 0 THEN <<0, 1>> ELSE <<n \div g, d \div g>>

\* x * k for an integer k > 0
Times(x, k) == LET g == Gcd(k, x[2]) IN Rat(x[1] * (k \div g), x[2] \div g)

\* store of a number into a Uint8ClampedArray element:
\* clamp to [0, 255], round to nearest, ties to even
ToUint8Clamp(x) ==
    LET q == x[1] \div x[2]
        r == x[1] % x[2]
    IN IF x[1] <= 0 THEN 0
       ELSE IF q >= 255 THEN 255
       ELSE IF 2 * r < x[2] THEN q
       ELSE IF 2 * r > x[2] THEN q + 1
       ELSE IF q % 2 = 0 THEN q ELSE q + 1

(***************************************************************************)
(* toImageBlob                                                             *)
(***************************************************************************)
ShapeError == "Tensor must have shape [height, width, 3] for RGB image"
ContextError == "Unable to get canvas context"
BlobError == "Conversion to Blob failed"

NoBlob == [type |-> "", width |-> 0, height |-> 0, data |-> <<>>]
NoCanvas == [created |-> FALSE, width |-> 0, height |-> 0, data |-> <<>>]
Pending == [state |-> "pending", error |-> "", blob |-> NoBlob]
Rejected(e) == [state |-> "rejected", error |-> e, blob |-> NoBlob]
Resolved(b) == [state |-> "resolved", error |-> "", blob |-> b]

\* tensor.shape.length !== 3 || tensor.shape[2] !== 3
toImageBlobRejectsRankOnly(shape) == Len(shape) # 3
toImageBlobRejects(shape) == Len(shape) # 3 \/ shape[3] # 3

\* the value pushed for one channel, and its store into the clamped array
ExpandedChannel(v) == Times(v, 255)
\* the same store into a Uint8Array: truncated, modulo 256
ClampedByteWrapping(x) == LET y == Times(x, 255) IN (y[1] \div y[2]) % 256
ClampedByte(x) == ToUint8Clamp(Times(x, 255))

\* pixelData[i]; past the end it is undefined, whose product is NaN, stored
\* into the clamped array as 0
PixelDatum(pixelData, i) ==
    IF i < Len(pixelData) THEN pixelData[i + 1] ELSE <<0, 1>>

RECURSIVE ExpandedArray(_, _)
\* for (let i = 0; i < pixelData.length; i += 3) { push R, G, B, 255 }
ExpandedArray(pixelData, i) ==
    IF i >= Len(pixelData) THEN <<>>
    ELSE <<ExpandedChannel(PixelDatum(pixelData, i)),
           ExpandedChannel(PixelDatum(pixelData, i + 1)),
           ExpandedChannel(PixelDatum(pixelData, i + 2)),
           <<255, 1>>>> \o ExpandedArray(pixelData, i + 3)

\* new Uint8ClampedArray(expandedArray.map((v) => v * 255))
ClampedArray(expandedArray) ==
    [k \in 1..Len(expandedArray) |-> ClampedByte(expandedArray[k])]

\* the Blob the encoder hands to the callback when it has output
EncodedBlob(canvas, format) ==
    [type |-> format, width |-> canvas.width, height |-> canvas.height,
     data |-> canvas.data]

(***************************************************************************)
(* Inputs of toImageBlob.                                                  *)
(***************************************************************************)
\* normalized RGB triples; every value is exactly representable in float32
PixelColors ==
    {<<Rat(1, 1), Rat(0, 1), Rat(1, 2)>>,
     <<Rat(1, 4), Rat(1, 65536), Rat(3, 65536)>>,
     <<Rat(1, 512), Rat(1, 2), Rat(0, 1)>>}

ImageTensors ==
    UNION {{[shape |-> <<h, w, 3>>, values |-> Flat(px)] :
              px \in [1..(h * w) -> PixelColors]} :
           h \in 1..MaxHeight, w \in 1..MaxWidth}

\* tensors toImageBlob must reject: rank not 3, or third axis not 3
BadImageShapes ==
    {<<>>, <<3>>, <<1, 3>>, <<1, 1, 1>>, <<1, 1, 4>>, <<1, 3, 1>>, <<1, 1, 3, 1>>}
BadImageTensors ==
    {[shape |-> sh, values |-> [k \in 1..Product(sh) |-> Rat(1, 2)]] :
        sh \in BadImageShapes}

Formats == {"image/png", "image/jpeg"}

(***************************************************************************)
(* One toImageBlob call, step by step.                                     *)
(***************************************************************************)
InitToImage ==
    /\ tiPc = "idle"
    /\ tiTensor = NoTensor
    /\ tiFormat = "image/png"
    /\ tiLog = <<>>
    /\ tiPixels = <<>>
    /\ tiCanvas = NoCanvas
    /\ tiCallback = "none"
    /\ tiPromise = Pending

\* the call up to its first suspension: the shape check, then tensor.data()
CallToImageBlobWith(tensors, formats) ==
    /\ tiPc = "idle"
    /\ \E t \in tensors : \E f \in formats :
          /\ tiTensor' = t
          /\ tiFormat' = f
          /\ IF toImageBlobRejects(t.shape)
             THEN /\ tiLog' = <<"validate">>
                  /\ tiPromise' = Rejected(ShapeError)
                  /\ tiPc' = "settled"
             ELSE /\ tiLog' = <<"validate", "readBuffer">>
                  /\ tiPromise' = Pending
                  /\ tiPc' = "awaitData"
    /\ UNCHANGED <<tiPixels, tiCanvas, tiCallback, tabVars, fiVars>>

CallToImageBlob == CallToImageBlobWith(ImageTensors \cup BadImageTensors, Formats)

\* what the call does between the resumption of `await tensor.data()` and
\* canvas.getContext('2d')
BuiltPixels == ClampedArray(ExpandedArray(tiTensor.values, 0))
NewCanvas ==
    [created |-> TRUE, width |-> tiTensor.shape[2], height |-> tiTensor.shape[1],
     data |-> <<>>]
UpToContext == <<"buildPixels", "createCanvas", "getContext">>

\* getContext('2d') returns null: the async function throws
ResumeNoContext ==
    /\ tiPc = "awaitData"
    /\ tiPixels' = BuiltPixels
    /\ tiCanvas' = NewCanvas
    /\ tiLog' = tiLog \o UpToContext
    /\ tiPromise' = Rejected(ContextError)
    /\ tiPc' = "settled"
    /\ UNCHANGED <<tiTensor, tiFormat, tiCallback, tabVars, fiVars>>

\* putImageData, then canvas.toBlob on a platform that calls back later
ResumeEncodeAsync ==
    /\ tiPc = "awaitData"
    /\ tiPixels' = BuiltPixels
    /\ tiCanvas' = [NewCanvas EXCEPT !.data = BuiltPixels]
    /\ tiLog' = tiLog \o UpToContext \o <<"putImageData", "toBlob">>
    /\ tiPc' = "encoding"
    /\ UNCHANGED <<tiTensor, tiFormat, tiCallback, tiPromise, tabVars, fiVars>>

\* the callback of canvas.toBlob: if (!blob) throw ...; resolve(blob)
\* inPromiseExecutor: the callback runs inside toBlob, itself inside the
\* executor of the returned promise, which turns the throw into a rejection;
\* called later by the platform, the throw reaches no promise.
BlobCallback(hasBlob, inPromiseExecutor, canvas, format, promise) ==
    IF hasBlob THEN Resolved(EncodedBlob(canvas, format))
    ELSE IF inPromiseExecutor THEN Rejected(BlobError)
    ELSE promise

\* putImageData, then canvas.toBlob on a platform that calls back at once
\* (the test setup's canvas does)
ResumeEncodeSync ==
    /\ tiPc = "awaitData"
    /\ tiPixels' = BuiltPixels
    /\ tiCanvas' = [NewCanvas EXCEPT !.data = BuiltPixels]
    /\ tiLog' = tiLog \o UpToContext \o <<"putImageData", "toBlob", "callback">>
    /\ \E hasBlob \in BOOLEAN :
          /\ tiCallback' = IF hasBlob THEN "blob" ELSE "null"
          /\ tiPromise' = BlobCallback(hasBlob, TRUE, tiCanvas', tiFormat, tiPromise)
    /\ tiPc' = "callbackDone"
    /\ UNCHANGED <<tiTensor, tiFormat, tabVars, fiVars>>

\* the platform calls the encoder's callback as a task of its own
EncoderCallback ==
    /\ tiPc = "encoding"
    /\ tiLog' = tiLog \o <<"callback">>
    /\ \E hasBlob \in BOOLEAN :
          /\ tiCallback' = IF hasBlob THEN "blob" ELSE "null"
          /\ tiPromise' = BlobCallback(hasBlob, FALSE, tiCanvas, tiFormat, tiPromise)
    /\ tiPc' = "callbackDone"
    /\ UNCHANGED <<tiTensor, tiFormat, tiPixels, tiCanvas, tabVars, fiVars>>

NextToImage ==
    \/ CallToImageBlob
    \/ ResumeNoContext
    \/ ResumeEncodeAsync
    \/ ResumeEncodeSync
    \/ EncoderCallback

(***************************************************************************)
(* fromImageBlob                                                           *)
(***************************************************************************)
RECURSIVE NormShift(_, _, _)
\* the least k with b * 2^k >= d, and b * 2^k  (b > 0)
NormShift(b, d, k) == IF b >= d THEN <<b, k>> ELSE NormShift(2 * b, d, k + 1)

RECURSIVE DivBits(_, _, _, _)
\* n more quotient bits of r / d by long division
DivBits(q, r, d, n) ==
    IF n = 0 THEN <<q, r>>
    ELSE IF 2 * r >= d THEN DivBits(2 * q + 1, 2 * r - d, d, n - 1)
    ELSE DivBits(2 * q, 2 * r, d, n - 1)

\* b / d stored into a Float32Array element, for 0 <= b <= d: the float32
\* m * 2^(-e) nearest to b / d (24-bit mantissa, ties to even), and whether
\* b / d is that float32 exactly
F32Quotient(b, d) ==
    IF b = 0 THEN [m |-> 0, e |-> 0, exact |-> TRUE]
    ELSE LET n == NormShift(b, d, 0)
             qr == DivBits(1, n[1] - d, d, 23)
             up == \/ 2 * qr[2] > d
                   \/ 2 * qr[2] = d /\ qr[1] % 2 = 1
         IN [m |-> IF up THEN qr[1] + 1 ELSE qr[1], e |-> 23 + n[2],
             exact |-> qr[2] = 0]

\* byte / 255 as a float32, for every byte
Float32Of255 ==
    [b \in 0..255 |-> LET f == F32Quotient(b, 255) IN [m |-> f.m, e |-> f.e]]

\* imageData.data[i] / 255 as stored into the Float32Array
NormalizedChannel(byte) == Float32Of255[byte]

\* imageData.data[i]; past the end it is undefined, stored as NaN
ImageDatum(data, i) == IF i < Len(data) THEN data[i + 1] ELSE 0

RECURSIVE NormalizedRgbShifted(_, _)
NormalizedRgbShifted(data, i) ==
    IF i >= Len(data) THEN <<>>
    ELSE <<NormalizedChannel(ImageDatum(data, i + 1)),
           NormalizedChannel(ImageDatum(data, i + 2)),
           NormalizedChannel(ImageDatum(data, i + 3))>>
         \o NormalizedRgbShifted(data, i + 4)

RECURSIVE NormalizedRgb(_, _)
\* for (let i = 0, j = 0; i < imageData.data.length; i += 4) { R, G, B }
NormalizedRgb(data, i) ==
    IF i >= Len(data) THEN <<>>
    ELSE <<NormalizedChannel(ImageDatum(data, i)),
           NormalizedChannel(ImageDatum(data, i + 1)),
           NormalizedChannel(ImageDatum(data, i + 2))>>
         \o NormalizedRgb(data, i + 4)

\* tf.tensor3d(data, [canvas.height, canvas.width, 3]) on the Float32Array
Tensor3d(data, height, width) == [shape |-> <<height, width, 3>>, values |-> data]

LoadErrorPrefix == "Image failed to load: "
\* new Error(`Image failed to load: ${error}`)
LoadErrorMessageBare(error) == [prefix |-> LoadErrorPrefix, cause |-> ""]
LoadErrorMessage(error) == [prefix |-> LoadErrorPrefix, cause |-> error]
PlainError(text) == [prefix |-> text, cause |-> ""]
NoError == [prefix |-> "", cause |-> ""]

FiPending == [state |-> "pending", error |-> NoError, tensor |-> NoTensor]
FiRejected(e) == [state |-> "rejected", error |-> e, tensor |-> NoTensor]
FiResolved(t) == [state |-> "resolved", error |-> NoError, tensor |-> t]

NoImage == [width |-> 0, height |-> 0, data |-> <<>>]

(***************************************************************************)
(* What the platform may deliver to a fromImageBlob call.                  *)
(***************************************************************************)
\* RGBA bytes of one pixel as ctx.getImageData returns them
RgbaPixels ==
    {<<255, 0, 0, 255>>, <<0, 128, 64, 200>>, <<1, 254, 3, 77>>}

DecodedImages ==
    UNION {{[width |-> w, height |-> h, data |-> Flat(px)] :
              px \in [1..(h * w) -> RgbaPixels]} :
           h \in 1..MaxHeight, w \in 1..MaxWidth}

\* what the error event of the image stringifies to
DecodeErrors == {"[object Event]", "decode failed"}
\* what tf.tensor3d throws when it fails
TensorFailure == "tensor3d failed"

(***************************************************************************)
(* One fromImageBlob call, step by step.                                   *)
(***************************************************************************)
InitFromImage ==
    /\ fiPc = "idle"
    /\ fiLog = <<>>
    /\ fiUrl = [created |-> 0, revoked |-> 0]
    /\ fiSrcSet = 0
    /\ fiImage = NoImage
    /\ fiEvent = "none"
    /\ fiPromise = FiPending

\* the promise executor: new Image(), createObjectURL, the two handlers,
\* img.src = url
\* the executor also calling img.onload() itself, on the image not yet decoded
CallFromImageBlobInvokingOnload ==
    /\ fiPc = "idle"
    /\ fiLog' = <<"createURL", "setHandlers", "assignSrc", "createCanvas",
                  "getContext", "drawImage", "revokeURL", "getImageData", "reject">>
    /\ fiUrl' = [created |-> fiUrl.created + 1, revoked |-> fiUrl.revoked + 1]
    /\ fiSrcSet' = fiSrcSet + 1
    /\ fiPromise' = FiRejected(PlainError("IndexSizeError"))
    /\ fiPc' = "loading"
    /\ UNCHANGED <<fiImage, fiEvent, tabVars, tiVars>>

CallFromImageBlob ==
    /\ fiPc = "idle"
    /\ fiLog' = <<"createURL", "setHandlers", "assignSrc">>
    /\ fiUrl' = [fiUrl EXCEPT !.created = @ + 1]
    /\ fiSrcSet' = fiSrcSet + 1
    /\ fiPc' = "loading"
    /\ UNCHANGED <<fiImage, fiEvent, fiPromise, tabVars, tiVars>>

\* img.onload when canvas.getContext('2d') returns null
OnLoadNoContextSilent(sizes) ==
    /\ fiPc = "loading"
    /\ \E hw \in sizes :
          fiImage' = [width |-> hw[2], height |-> hw[1], data |-> <<>>]
    /\ fiEvent' = "load"
    /\ fiLog' = fiLog \o <<"load", "createCanvas", "getContext", "revokeURL">>
    /\ fiUrl' = [fiUrl EXCEPT !.revoked = @ + 1]
    /\ fiPc' = "settled"
    /\ UNCHANGED <<fiPromise, fiSrcSet, tabVars, tiVars>>

OnLoadNoContextWith(sizes) ==
    /\ fiPc = "loading"
    /\ \E hw \in sizes :
          fiImage' = [width |-> hw[2], height |-> hw[1], data |-> <<>>]
    /\ fiEvent' = "load"
    /\ fiLog' = fiLog \o <<"load", "createCanvas", "getContext", "reject", "revokeURL">>
    /\ fiPromise' = FiRejected(PlainError(ContextError))
    /\ fiUrl' = [fiUrl EXCEPT !.revoked = @ + 1]
    /\ fiPc' = "settled"
    /\ UNCHANGED <<fiSrcSet, tabVars, tiVars>>

OnLoadNoContext == OnLoadNoContextWith((1..MaxHeight) \X (1..MaxWidth))

UpToTensorReadFirst ==
    <<"load", "createCanvas", "getContext", "getImageData", "drawImage",
      "revokeURL", "normalize", "tensor3d">>
UpToTensor ==
    <<"load", "createCanvas", "getContext", "drawImage", "revokeURL",
      "getImageData", "normalize", "tensor3d">>

\* img.onload with a context, tf.tensor3d returning
OnLoadResolveWith(images) ==
    /\ fiPc = "loading"
    /\ \E img \in images :
          /\ fiImage' = img
          /\ fiPromise' = FiResolved(Tensor3d(NormalizedRgb(img.data, 0),
                                              img.height, img.width))
    /\ fiEvent' = "load"
    /\ fiLog' = fiLog \o UpToTensor \o <<"resolve">>
    /\ fiUrl' = [fiUrl EXCEPT !.revoked = @ + 1]
    /\ fiPc' = "settled"
    /\ UNCHANGED <<fiSrcSet, tabVars, tiVars>>

OnLoadResolve == OnLoadResolveWith(DecodedImages)

\* img.onload with a context, tf.tensor3d throwing: catch (error) { reject(error) }
OnLoadTensorFailsWith(images) ==
    /\ fiPc = "loading"
    /\ \E img \in images : fiImage' = img
    /\ fiEvent' = "load"
    /\ fiLog' = fiLog \o UpToTensor \o <<"reject">>
    /\ fiPromise' = FiRejected(PlainError(TensorFailure))
    /\ fiUrl' = [fiUrl EXCEPT !.revoked = @ + 1]
    /\ fiPc' = "settled"
    /\ UNCHANGED <<fiSrcSet, tabVars, tiVars>>

OnLoadTensorFails == OnLoadTensorFailsWith(DecodedImages)

\* img.onerror = (error) => { reject(new Error(...)) }: the URL is left alone
OnError ==
    /\ fiPc = "loading"
    /\ \E error \in DecodeErrors :
          /\ fiEvent' = error
          /\ fiPromise' = FiRejected(LoadErrorMessage(error))
    /\ fiLog' = fiLog \o <<"error", "reject">>
    /\ fiPc' = "settled"
    /\ UNCHANGED <<fiUrl, fiSrcSet, fiImage, tabVars, tiVars>>

NextFromImage ==
    \/ CallFromImageBlob
    \/ OnLoadNoContext
    \/ OnLoadResolve
    \/ OnLoadTensorFails
    \/ OnError

(***************************************************************************)
(* The round trip: toImageBlob, then fromImageBlob on the PNG it resolved   *)
(* to.  PNG is lossless and the pixels are opaque, so the platform decodes  *)
(* the blob to the width, height and RGBA bytes of the encoded canvas.      *)
(***************************************************************************)
PngDecode(blob) == [width |-> blob.width, height |-> blob.height, data |-> blob.data]

\* RGB triples over {0, 1/2, 1}
RoundTripColors ==
    LET levels == {Rat(0, 1), Rat(1, 2), Rat(1, 1)}
    IN {<<r, g, b>> : r \in levels, g \in levels, b \in levels}

\* tensors whose every pixel has the same color
SolidTensors ==
    UNION {{[shape |-> <<h, w, 3>>, values |-> Flat([k \in 1..(h * w) |-> color])] :
              color \in RoundTripColors} :
           h \in 1..MaxHeight, w \in 1..MaxWidth}

RtCallToImageBlob == CallToImageBlobWith(SolidTensors \cup BadImageTensors, Formats)

RtBlobReady == tiPromise.state = "resolved" /\ tiPromise.blob.type = "image/png"
RtImage == PngDecode(tiPromise.blob)

RtCallFromImageBlob == RtBlobReady /\ CallFromImageBlob
RtOnLoadNoContext == OnLoadNoContextWith({<<RtImage.height, RtImage.width>>})
RtOnLoadResolve == OnLoadResolveWith({RtImage})
RtOnLoadTensorFails == OnLoadTensorFailsWith({RtImage})

NextRoundTrip ==
    \/ RtCallToImageBlob
    \/ ResumeNoContext
    \/ ResumeEncodeAsync
    \/ ResumeEncodeSync
    \/ EncoderCallback
    \/ RtCallFromImageBlob
    \/ RtOnLoadNoContext
    \/ RtOnLoadResolve
    \/ RtOnLoadTensorFails
    \/ OnError

(***************************************************************************)
(* Two calls in flight at once: a toImageBlob call and a fromImageBlob     *)
(* call of the same caller, their steps interleaved by the event loop.     *)
(***************************************************************************)
SmallImages == {img \in DecodedImages : img.width = 1 /\ img.height = 1}

IcOnLoadNoContext == OnLoadNoContextWith({<<1, 1>>})
IcOnLoadResolve == OnLoadResolveWith(SmallImages)
IcOnLoadTensorFails == OnLoadTensorFailsWith(SmallImages)

NextImageCalls ==
    \/ RtCallToImageBlob
    \/ ResumeNoContext
    \/ ResumeEncodeAsync
    \/ ResumeEncodeSync
    \/ EncoderCallback
    \/ CallFromImageBlob
    \/ IcOnLoadNoContext
    \/ IcOnLoadResolve
    \/ IcOnLoadTensorFails
    \/ OnError

(***************************************************************************)
(* Specifications: one per converter pair, the other calls idle; the       *)
(* round trip; the two image calls in flight together.                     *)
(***************************************************************************)
Init == InitTab /\ InitToImage /\ InitFromImage

SpecTab == Init /\ [][NextTab]_vars
SpecToImage == Init /\ [][NextToImage]_vars
SpecFromImage == Init /\ [][NextFromImage]_vars
SpecRoundTrip == Init /\ [][NextRoundTrip]_vars
SpecImageCalls == Init /\ [][NextImageCalls]_vars

(***************************************************************************)
(* Claims about toTensor and fromTensor (checked under SpecTab).           *)
(***************************************************************************)
Min(x, y) == IF x < y THEN x ELSE y

NRows == count(dataFrame)
MCols == Len(columnNames(dataFrame))
\* element [i, j] (1-based) of the rank-2 tensor t
Elem(t, i, j) == t.values[(i - 1) * t.shape[2] + j]

\* C1 as stated: toTensor(T) has shape [N, M] and element [i, j] equals the
\* value of row i under the j-th column name of T.
C1_AsStated ==
    pc = "toTensorDone" =>
        /\ tensor.shape = <<NRows, MCols>>
        /\ \A i \in 1..NRows : \A j \in 1..MCols :
              Elem(tensor, i, j) = toJSON(dataFrame)[i][columnNames(dataFrame)[j]]

\* C1 (amended): toTensor(T) has shape [N, M], holds exactly N*M elements, and
\* element [i, j] equals the value of row i under the j-th column name of T
\* rounded to float32, the tensor's element type (N = 0 included).
C1_ToTensorShapeAndElements ==
    pc = "toTensorDone" =>
        /\ tensor.shape = <<NRows, MCols>>
        /\ Len(tensor.values) = NRows * MCols
        /\ \A i \in 1..NRows : \A j \in 1..MCols :
              Elem(tensor, i, j) =
                  Fround(toJSON(dataFrame)[i][columnNames(dataFrame)[j]])

C1_Witness ==
    /\ pc = "toTensorDone"
    /\ NRows = 2 /\ MCols = 2
    /\ tensor.shape = <<2, 2>>
    /\ tensor.values = <<3, 16777216, 16777220, 3>>

C3_RankCheckedFirst ==
    (pc = "fromTensorDone" /\ Len(tensor.shape) # 2) =>
        /\ ftOut.threw
        /\ ftOut.error = RankError
        /\ ftOut.reads = 0
        /\ ftOut.built = 0
        /\ ftOut.promise = "none"

C3_Witness ==
    /\ pc = "fromTensorDone"
    /\ Len(tensor.shape) = 3
    /\ Len(tensor.values) > 0
    /\ ftOut.threw /\ ftOut.error = RankError /\ ftOut.reads = 0

\* the tensor handed to fromTensor has rank 2: shape [R, K], column list of
\* length L (0 when omitted)
Rank2Call == pc = "fromTensorDone" /\ Len(tensor.shape) = 2
ArgNames == ColumnsOrEmpty(columns)

IsLast(names, j) == \A k \in (j + 1)..Len(names) : names[k] # names[j]

TiCalled == tiPc # "idle"
TiInvalid == Len(tiTensor.shape) # 3 \/ tiTensor.shape[3] # 3

\* C5: toImageBlob on a tensor whose rank is not 3 or whose third axis is not
\* 3 fails with the shape error before any work: the flat buffer is not read,
\* no pixel buffer is built, no canvas is created, the encoder is not invoked.
C5_ShapeCheckedFirst ==
    (TiCalled /\ TiInvalid) =>
        /\ tiPromise = Rejected(ShapeError)
        /\ tiLog = <<"validate">>
        /\ tiPixels = <<>>
        /\ ~tiCanvas.created
        /\ tiCallback = "none"
        /\ tiPc = "settled"

C5_Witness ==
    /\ TiCalled
    /\ tiTensor.shape = <<1, 1, 4>>
    /\ Len(tiTensor.values) = 4
    /\ tiPromise = Rejected(ShapeError)
    /\ tiLog = <<"validate">>

\* Math.round(x): the nearest integer, halves up
MathRound(x) == (2 * x[1] + x[2]) \div (2 * x[2])

TiPixelsBuilt == tiPc \in {"settled", "encoding", "callbackDone"} /\ ~TiInvalid

\* C6: each normalized channel value v is denormalized exactly once: the byte
\* written for it is round(v * 255), every fourth byte is 255, and the buffer
\* has length H*W*4 in the pixel order of the tensor.
C6_DenormalizedOnce ==
    TiPixelsBuilt =>
        LET n == tiTensor.shape[1] * tiTensor.shape[2]
        IN /\ Len(tiPixels) = n * 4
           /\ \A p \in 0..(n - 1) :
                 /\ \A c \in 0..2 :
                       tiPixels[4 * p + c + 1] =
                           MathRound(Times(tiTensor.values[3 * p + c + 1], 255))
                 /\ tiPixels[4 * p + 4] = 255

\* C7: when the encoder's callback reports no output (null blob), the promise
\* returned by toImageBlob is rejected with the descriptive error: it is
\* neither left pending nor resolved.
C7_NullBlobRejects ==
    tiCallback = "null" => tiPromise = Rejected(BlobError)

(***************************************************************************)
(* Claims about fromImageBlob (checked under SpecFromImage).               *)
(***************************************************************************)
FiPixelCount == fiImage.width * fiImage.height

\* C8 as stated: on a successful load the call resolves to a tensor of shape
\* [H, W, 3] with H*W*3 elements, element 3p+c being exactly rgba[4p+c] / 255.
C8_AsStated ==
    fiPromise.state = "resolved" =>
        LET t == fiPromise.tensor
        IN /\ t.shape = <<fiImage.height, fiImage.width, 3>>
           /\ Len(t.values) = FiPixelCount * 3
           /\ \A p \in 0..(FiPixelCount - 1) : \A c \in 0..2 :
                 LET f == F32Quotient(fiImage.data[4 * p + c + 1], 255)
                 IN t.values[3 * p + c + 1] = [m |-> f.m, e |-> f.e] /\ f.exact

\* C8 (amended): when the image loads and the call resolves, the result is a
\* tensor of shape [H, W, 3] with exactly H*W*3 elements, element 3p+c being
\* rgba[4p+c] / 255 rounded to float32; no element comes from an alpha byte,
\* and the pixel order is that of the RGBA buffer.
C8_NormalizedRgb ==
    fiPromise.state = "resolved" =>
        LET t == fiPromise.tensor
        IN /\ fiEvent = "load"
           /\ Len(fiImage.data) = FiPixelCount * 4
           /\ t.shape = <<fiImage.height, fiImage.width, 3>>
           /\ Len(t.values) = FiPixelCount * 3
           /\ \A p \in 0..(FiPixelCount - 1) : \A c \in 0..2 :
                 LET f == F32Quotient(fiImage.data[4 * p + c + 1], 255)
                 IN t.values[3 * p + c + 1] = [m |-> f.m, e |-> f.e]

C8_Witness ==
    /\ fiPromise.state = "resolved"
    /\ fiImage.width = 2 /\ fiImage.height = 1
    /\ fiImage.data = <<0, 128, 64, 200, 255, 0, 0, 255>>
    /\ fiPromise.tensor.shape = <<1, 2, 3>>
    /\ fiPromise.tensor.values[2] = [m |-> 8421505, e |-> 24]
    /\ fiPromise.tensor.values[4] = [m |-> 8388608, e |-> 23]

\* C9: on every exit path of fromImageBlob (load, no canvas context, tensor
\* construction failure, decode error) the object URL created for the blob
\* has been revoked exactly once when the call settles.
C9_UrlRevokedOnce ==
    fiPromise.state # "pending" => (fiUrl.created = 1 /\ fiUrl.revoked = 1)

\* C10: when the platform reports a decode/load error, the promise is rejected
\* with an error whose message includes the underlying error, no tensor is
\* produced, and the image source has been assigned exactly once.
C10_DecodeErrorRejects ==
    fiEvent \in DecodeErrors =>
        /\ fiPromise.state = "rejected"
        /\ fiPromise.error.prefix = LoadErrorPrefix
        /\ fiPromise.error.cause = fiEvent
        /\ fiPromise.tensor = NoTensor
        /\ fiSrcSet = 1
        /\ \A k \in 1..Len(fiLog) : fiLog[k] \notin {"tensor3d", "resolve"}
        /\ Cardinality({k \in 1..Len(fiLog) : fiLog[k] = "assignSrc"}) = 1

C10_Witness ==
    /\ fiEvent = "decode failed"
    /\ fiPromise = FiRejected(LoadErrorMessage("decode failed"))
    /\ fiLog = <<"createURL", "setHandlers", "assignSrc", "error", "reject">>

\* C14: the promise of a fromImageBlob call is settled at most once, and only
\* in the step in which the platform delivers the load or the error
\* notification of the call's image; while neither has been delivered (no
\* timer, no direct call of the handler) the promise stays pending.
C14_SettledByNotificationOnly ==
    /\ [](fiEvent = "none" => fiPromise = FiPending)
    /\ [][fiPromise.state # "pending" => fiPromise' = fiPromise]_vars
    /\ [][fiPromise' # fiPromise =>
             /\ fiEvent = "none" /\ fiEvent' \in {"load"} \cup DecodeErrors
             /\ fiPromise'.state # "pending"]_vars
    /\ [][fiEvent # "none" => fiEvent' = fiEvent]_vars

C14_Witness ==
    /\ fiPc = "settled"
    /\ fiEvent = "load"
    /\ fiPromise.state = "resolved"
    /\ fiSrcSet = 1
    /\ fiLog[4] = "load" /\ fiLog[Len(fiLog)] = "resolve"

(***************************************************************************)
(* Claims about both image converters (checked under SpecImageCalls).      *)
(***************************************************************************)
InLog(log, step) == \E k \in 1..Len(log) : log[k] = step

\* the call reached canvas.getContext('2d') and went no further
TiStoppedAtContext == tiPc = "settled" /\ tiLog[Len(tiLog)] = "getContext"
FiStoppedAtContext ==
    fiPc = "settled" /\ fiEvent = "load" /\ ~InLog(fiLog, "drawImage")

\* C11: when the canvas's 2D context cannot be acquired, the caller sees
\* 'Unable to get canvas context': toImageBlob's promise is rejected with it
\* and the encoder is never invoked; fromImageBlob's promise is rejected with
\* it and the image is not drawn, no pixels are read, no tensor is built.
C11_NoContextRejects ==
    /\ TiStoppedAtContext =>
          /\ tiPromise = Rejected(ContextError)
          /\ ~InLog(tiLog, "putImageData")
          /\ ~InLog(tiLog, "toBlob")
          /\ ~InLog(tiLog, "callback")
          /\ tiCallback = "none"
          /\ tiCanvas.data = <<>>
    /\ tiPromise.error = ContextError => TiStoppedAtContext
    /\ FiStoppedAtContext =>
          /\ fiPromise = FiRejected(PlainError(ContextError))
          /\ ~InLog(fiLog, "getImageData")
          /\ ~InLog(fiLog, "normalize")
          /\ ~InLog(fiLog, "tensor3d")
          /\ fiImage.data = <<>>
          /\ fiPromise.tensor = NoTensor
    /\ fiPromise.error.prefix = ContextError => FiStoppedAtContext

C11_Witness ==
    /\ TiStoppedAtContext
    /\ tiPromise = Rejected(ContextError)
    /\ tiTensor.shape = <<2, 2, 3>>
    /\ FiStoppedAtContext
    /\ fiPromise = FiRejected(PlainError(ContextError))
    /\ fiUrl.revoked = 1

\* the steps of log that are among `steps`, in log order
Project(log, steps) == SelectSeq(log, LAMBDA x : x \in {steps[k] : k \in 1..Len(steps)})
IsPrefix(a, b) == Len(a) <= Len(b) /\ a = SubSeq(b, 1, Len(a))

FromImageOrder ==
    <<"createURL", "load", "drawImage", "getImageData", "tensor3d", "resolve">>
ToImageOrder ==
    <<"validate", "readBuffer", "buildPixels", "putImageData", "toBlob", "callback">>

\* C13: within one call the steps happen strictly in order, none skipped or
\* repeated: fromImageBlob creates the URL, then the decode completes, then
\* the image is drawn, the pixels are read, the tensor is built, the promise
\* resolved; toImageBlob validates, reads the buffer, builds the pixel buffer,
\* puts it on the canvas, starts the encoder and resolves in its callback.
\* A call that fails stops at a prefix of its order; a call that resolves has
\* taken every step.
C13_StepsInOrder ==
    /\ IsPrefix(Project(fiLog, FromImageOrder), FromImageOrder)
    /\ IsPrefix(Project(tiLog, ToImageOrder), ToImageOrder)
    /\ fiPromise.state = "resolved" => Project(fiLog, FromImageOrder) = FromImageOrder
    /\ tiPromise.state = "resolved" =>
          /\ Project(tiLog, ToImageOrder) = ToImageOrder
          /\ tiCallback = "blob"
    /\ InLog(fiLog, "getImageData") => fiEvent = "load"
    /\ InLog(tiLog, "toBlob") => tiCanvas.data = tiPixels /\ Len(tiPixels) > 0

C13_Witness ==
    /\ tiPromise.state = "resolved"
    /\ fiPromise.state = "resolved"
    /\ Project(fiLog, FromImageOrder) = FromImageOrder
    /\ Project(tiLog, ToImageOrder) = ToImageOrder
    /\ Len(fiLog) = 12 /\ Len(tiLog) = 8

(***************************************************************************)
(* Claims about the round trip (checked under SpecRoundTrip).              *)
(***************************************************************************)
RECURSIVE Pow2(_)
Pow2(k) == IF k = 0 THEN 1 ELSE 2 * Pow2(k - 1)

\* |f - c| <= 1/10 for a float32 f = m * 2^(-e) and an integer c
WithinTenth(f, c) ==
    LET e == IF f.e > 30 THEN 30 ELSE f.e
        m == IF f.e > 30 THEN f.m \div Pow2(f.e - 30) ELSE f.m
        diff == IF m >= c * Pow2(e) THEN m - c * Pow2(e) ELSE c * Pow2(e) - m
    IN diff <= Pow2(e) \div 10

RtHeight == tiTensor.shape[1]
RtWidth == tiTensor.shape[2]

\* the tensor handed to toImageBlob is one solid color with channels in {0, 1}
\* and was encoded as PNG
RtSolidZeroOne ==
    /\ ~TiInvalid
    /\ tiFormat = "image/png"
    /\ \A k \in 1..Len(tiTensor.values) :
          /\ tiTensor.values[k] \in {<<0, 1>>, <<1, 1>>}
          /\ k > 3 => tiTensor.values[k] = tiTensor.values[k - 3]

\* C12: for a tensor of shape [H, W, 3] of one solid color with channels in
\* {0, 1}, encoded as PNG, fromImageBlob(toImageBlob(tensor)) resolves to a
\* tensor of shape [H, W, 3] whose every channel is within 0.1 of the source
\* pixel's channel.
C12_SolidColorRoundTrip ==
    (fiPromise.state = "resolved" /\ RtSolidZeroOne) =>
        LET t == fiPromise.tensor
        IN /\ t.shape = <<RtHeight, RtWidth, 3>>
           /\ Len(t.values) = RtHeight * RtWidth * 3
           /\ \A k \in 1..Len(t.values) :
                 WithinTenth(t.values[k], tiTensor.values[k][1])

C12_Witness ==
    /\ fiPromise.state = "resolved"
    /\ RtSolidZeroOne
    /\ tiTensor.shape = <<2, 2, 3>>
    /\ SubSeq(tiTensor.values, 1, 3) = <<<<1, 1>>, <<0, 1>>, <<0, 1>>>>
    /\ fiPromise.tensor.shape = <<2, 2, 3>>
    /\ fiPromise.tensor.values[10] = [m |-> 8388608, e |-> 23]
    /\ fiPromise.tensor.values[11] = [m |-> 0, e |-> 0]

====
